---- MODULE Spec2Model ----
(***************************************************************************)
(* JetStream management client (src/jsm.go): option resolution, the four   *)
(* page listers (streamLister, streamNamesLister, consumerLister,          *)
(* consumerNamesLister), the goroutine that bridges a lister to a channel, *)
(* the retrying AddStream, and the single-request calls AddConsumer and    *)
(* DeleteStream.  Every API call owns its own options, lister and channel; *)
(* the state is therefore a family of per-call records indexed by Calls.   *)
(***************************************************************************)
EXTENDS Integers, Sequences, FiniteSets, TLC

\* ------------------------------------------------------------------ bounds
NumCalls == 2
MaxItems == 5
MaxPage == 2
MaxRetries == 2
\* The request counter saturates here, so that a lister that is never allowed
\* to finish still has finitely many states.
MaxCalls == 8

Calls == 1..NumCalls

Min(a, b) == IF a <= b THEN a ELSE b

\* ------------------------------------------------------------------ values
Nil == "nil"
EMPTY == ""

ListKinds == {"StreamsInfo", "StreamNames", "ConsumersInfo", "ConsumerNames"}
SyncKinds == {"AddStream", "AddConsumer", "DeleteStream"}

\* Errors Request can return, the error of a reply that does not decode, and
\* the error built from the error record of a decoded reply.
TransportErrs == {"ErrTimeout", "ErrNoResponders"}
ErrDecode == "ErrDecode"
ErrAPI == "ErrAPI"

\* js.wait: the default wait of the JetStream context.
jsWait == 1

\* Deadlines a caller can pass: negative, unset, positive.
TtlValues == {-1, 0, 1}

\* Durable names as sequences of characters.
Durables == {<<>>, <<"d">>, <<"a", ".", "b">>}

\* strings.Contains(s, ch) for a one-character ch
Contains(s, ch) == \E i \in DOMAIN s : s[i] = ch

\* --------------------------------------------------------------- variables
VARIABLES
    env,     \* per call: the arguments of the call and the server it talks to
    o,       \* per call: jsmOpts {ctx, ttl, ctxCancel, maxTries}
    ctx,     \* per call: state of the context o.ctx refers to
    lister,  \* per call: the lister {stream, err, offset, page, pageInfo}
    task,    \* per call: position of the call / its goroutine, loop indices
    ch,      \* per call: the returned channel and what its reader has received
    ret,     \* per call: the values a synchronous call returned
    net      \* per call: requests handed to the transport, request in flight

vars == <<env, o, ctx, lister, task, ch, ret, net>>

\* jsmOpts zero value (var o jsmOpts)
ZeroOpts == [ctx |-> Nil, ttl |-> 0, ctxCancel |-> FALSE, maxTries |-> 0]

\* a context nobody has cancelled.  cancelled: the caller or the deadline has
\* cancelled it; midDelivery: it was cancelled when the reader had already
\* received an item; released counts calls of o.ctxCancel.
LiveCtx == [done |-> FALSE, cancelled |-> FALSE, midDelivery |-> FALSE, released |-> 0]

\* &streamLister{js: js} / &consumerLister{stream: stream, js: js}:
\* pageInfo is a pointer, <<>> when nil and <<p>> when it points to p.
NewLister(stream) ==
    [stream |-> stream, err |-> Nil, offset |-> 0, page |-> <<>>, pageInfo |-> <<>>]

\* pc: where the call or its goroutine stands; idx: the index of the range
\* over the page; i: the index of the retry loop; sawFalse: Next has returned
\* false; again: Next has been called after it had returned false.
NoTask == [pc |-> "unused", idx |-> 0, i |-> 0, sawFalse |-> FALSE, again |-> FALSE]

\* a nil channel: made = FALSE
NilChan == [made |-> FALSE, closed |-> FALSE, recv |-> <<>>, reading |-> TRUE]

\* what a synchronous call returned: val 0 is the nil pointer, k > 0 the
\* record decoded from the reply to the k-th request of the call
NoRet == [val |-> 0, err |-> Nil]

\* calls: requests handed to the transport; busy/req: the request waiting for
\* its reply; fetched: items of the pages decoded so far, in fetch order;
\* replies: the outcome of every AddStream attempt; failure: the error of the
\* page fetch that failed; afterCancel: a request was issued after the
\* context had been cancelled.
NoNet ==
    [calls |-> 0, busy |-> FALSE, req |-> <<>>, fetched |-> <<>>,
     replies |-> <<>>, failure |-> Nil, afterCancel |-> FALSE]

\* ------------------------------------------------------------------ server
\* The server holds items 1..N in a fixed order and reports `total`.
ServerItems(e) == [k \in 1..e.N |-> k]

\* The page a list request gets: it starts at the offset of the request body
\* (apiPagedRequest.Offset), at 0 when the body is nil, and holds `size` items
\* or what is left.
ServerPage(e, body, size) ==
    LET off == IF body = <<>> THEN 0 ELSE body[1]
    IN  SubSeq(ServerItems(e), off + 1, Min(off + size, e.N))

\* A reply as the client sees it: reqErr is the error of Request, garbled a
\* body json.Unmarshal rejects, Error the apiResponse.Error description,
\* Total/Offset the apiPaged fields, Items the listed items.  fault names
\* what went wrong on the way (Nil: nothing).
Reply(fault, reqErr, garbled, Error, Total, Offset, Items) ==
    [fault |-> fault, reqErr |-> reqErr, garbled |-> garbled, Error |-> Error,
     Total |-> Total, Offset |-> Offset, Items |-> Items]

\* Failing replies.  An error envelope may still carry items: item 0.
FailReplies ==
    { Reply(t, t, FALSE, Nil, 0, 0, <<>>) : t \in TransportErrs }
    \cup { Reply(ErrDecode, Nil, TRUE, Nil, 0, 0, <<>>) }
    \cup { Reply(ErrAPI, Nil, FALSE, "description", 0, 0, <<0>>) }

PageReplies(e, body) ==
    { Reply(Nil, Nil, FALSE, Nil, e.total, IF body = <<>> THEN 0 ELSE body[1],
            ServerPage(e, body, size)) : size \in 1..MaxPage }

ListReplies(e, body) == FailReplies \cup PageReplies(e, body)

\* replies to a create or delete request
OkReply == Reply(Nil, Nil, FALSE, Nil, 0, 0, <<>>)

SyncReplies == FailReplies \cup {OkReply}

\* --------------------------------------------------------- option resolver
\* The modifiers (MaxWait, Context, retries) applied to the zero jsmOpts.
ApplyOpts(e) ==
    [ctx |-> IF e.optCtx THEN "ext" ELSE Nil, ttl |-> e.optTtl,
     ctxCancel |-> FALSE, maxTries |-> e.optRetries]

\* getJSMOptsStruct without its `o.maxTries++`
getJSMOptsStruct_NoIncrement(e) ==
    LET o0 == ApplyOpts(e)
        o1 == IF o0.ttl = 0 /\ o0.ctx = Nil THEN [o0 EXCEPT !.ttl = jsWait] ELSE o0
        o2 == IF o1.ctx = Nil /\ o1.ttl > 0
              THEN [o1 EXCEPT !.ctx = "own", !.ctxCancel = TRUE]
              ELSE o1
    IN  IF o0.ctx # Nil /\ o0.ttl # 0
        THEN [o |-> ZeroOpts, err |-> "ErrContextAndTimeout"]
        ELSE [o |-> o2, err |-> Nil]

\* getJSMOptsStruct that wraps whatever context it ends up with, the
\* caller's included, in a cancel function of its own
getJSMOptsStruct_WrapsCaller(e) ==
    LET o0 == ApplyOpts(e)
        o1 == IF o0.ttl = 0 /\ o0.ctx = Nil THEN [o0 EXCEPT !.ttl = jsWait] ELSE o0
        o2 == IF o1.ctx = Nil /\ o1.ttl > 0
              THEN [o1 EXCEPT !.ctx = "own", !.ctxCancel = TRUE]
              ELSE [o1 EXCEPT !.ctxCancel = (o1.ctx # Nil)]
    IN  IF o0.ctx # Nil /\ o0.ttl # 0
        THEN [o |-> ZeroOpts, err |-> "ErrContextAndTimeout"]
        ELSE [o |-> [o2 EXCEPT !.maxTries = @ + 1], err |-> Nil]

\* getJSMOptsStruct: returns (jsmOpts, error)
getJSMOptsStruct(e) ==
    LET o0 == ApplyOpts(e)
        o1 == IF o0.ttl = 0 /\ o0.ctx = Nil THEN [o0 EXCEPT !.ttl = jsWait] ELSE o0
        o2 == IF o1.ctx = Nil /\ o1.ttl > 0
              THEN [o1 EXCEPT !.ctx = "own", !.ctxCancel = TRUE]
              ELSE o1
    IN  IF o0.ctx # Nil /\ o0.ttl # 0
        THEN [o |-> ZeroOpts, err |-> "ErrContextAndTimeout"]
        ELSE [o |-> [o2 EXCEPT !.maxTries = @ + 1], err |-> Nil]

\* DeferredCancel that never calls the cancel function
DeferredCancel_Skip(opts, c) == c

\* the deferred func: if o.ctxCancel != nil { o.ctxCancel() }
DeferredCancel(opts, c) ==
    IF opts.ctxCancel
    THEN [c EXCEPT !.done = TRUE, !.released = @ + 1]
    ELSE c

\* ------------------------------------------------------------------ lister
\* The body of the list request: the two Info listers marshal their offset,
\* the two Names listers pass a nil body.
RequestBody(kind, l) ==
    CASE kind = "StreamsInfo"   -> <<l.offset>>
      [] kind = "ConsumersInfo" -> <<l.offset>>
      [] kind = "StreamNames"   -> <<>>
      [] kind = "ConsumerNames" -> <<>>

\* Exhausted with > for >=
Exhausted_Strict(l) == l.pageInfo # <<>> /\ l.offset > l.pageInfo[1].Total

\* if s.pageInfo != nil && s.offset >= s.pageInfo.Total { return false }
Exhausted(l) == l.pageInfo # <<>> /\ l.offset >= l.pageInfo[1].Total

\* NextPre without `if c.stream == _EMPTY_ { ... }`
NextPre_NoStreamCheck(kind, l) ==
    IF l.err # Nil THEN [l |-> l, go |-> FALSE]
    ELSE IF l.pageInfo # <<>> /\ l.offset >= l.pageInfo[1].Total
    THEN [l |-> l, go |-> FALSE]
    ELSE [l |-> l, go |-> TRUE]

\* NextPre without `if s.err != nil { return false }`
NextPre_NoErrCheck(kind, l) ==
    IF kind \in {"ConsumersInfo", "ConsumerNames"} /\ l.stream = EMPTY
    THEN [l |-> [l EXCEPT !.err = "ErrStreamNameRequired"], go |-> FALSE]
    ELSE IF l.pageInfo # <<>> /\ l.offset >= l.pageInfo[1].Total
    THEN [l |-> l, go |-> FALSE]
    ELSE [l |-> l, go |-> TRUE]

\* Next() up to the request: the lister it leaves and whether it goes on to
\* issue the request (go = FALSE: Next returns false here).
NextPre(kind, l) ==
    IF l.err # Nil THEN [l |-> l, go |-> FALSE]
    ELSE IF kind \in {"ConsumersInfo", "ConsumerNames"} /\ l.stream = EMPTY
    THEN [l |-> [l EXCEPT !.err = "ErrStreamNameRequired"], go |-> FALSE]
    ELSE IF Exhausted(l) THEN [l |-> l, go |-> FALSE]
    ELSE [l |-> l, go |-> TRUE]

\* The error Next finds in a reply, Nil when there is none.
ReplyErr(r) ==
    IF r.reqErr # Nil THEN r.reqErr
    ELSE IF r.garbled THEN ErrDecode
    ELSE IF r.Error # Nil THEN ErrAPI
    ELSE Nil

\* NextPost that returns false on an error without storing it in err
NextPost_DropsErr(l, r) ==
    IF ReplyErr(r) # Nil
    THEN [l |-> l, ok |-> FALSE]
    ELSE [l |-> [l EXCEPT !.pageInfo = <<[Total |-> r.Total, Offset |-> r.Offset]>>,
                          !.page = r.Items,
                          !.offset = @ + Len(r.Items)],
          ok |-> TRUE]

\* Next() from the reply on: the lister it leaves and the value it returns.
NextPost(l, r) ==
    IF ReplyErr(r) # Nil
    THEN [l |-> [l EXCEPT !.err = ReplyErr(r)], ok |-> FALSE]
    ELSE [l |-> [l EXCEPT !.pageInfo = <<[Total |-> r.Total, Offset |-> r.Offset]>>,
                          !.page = r.Items,
                          !.offset = @ + Len(r.Items)],
          ok |-> TRUE]

\* ------------------------------------------------------------------ inputs
Input(kind, stream, cfgNil, durable, optCtx, optTtl, optRetries, N, total) ==
    [kind |-> kind, stream |-> stream, cfgNil |-> cfgNil, durable |-> durable,
     optCtx |-> optCtx, optTtl |-> optTtl, optRetries |-> optRetries,
     N |-> N, total |-> total]

StreamNames == {EMPTY, "ORDERS"}

\* The totals a server holding n items may report: n, or one off.
Totals(n) == {t \in {n - 1, n, n + 1} : t >= 0}

ListInputs ==
    UNION { { Input(k, s, FALSE, <<>>, x, t, 0, n, tot) :
                s \in (IF k \in {"ConsumersInfo", "ConsumerNames"}
                       THEN StreamNames ELSE {EMPTY}),
                x \in BOOLEAN, t \in TtlValues, tot \in Totals(n) } :
            k \in ListKinds, n \in 0..MaxItems }

AddStreamInputs ==
    { Input("AddStream", s, cn, <<>>, x, t, r, 0, 0) :
        s \in StreamNames, cn \in BOOLEAN, x \in BOOLEAN, t \in TtlValues,
        r \in 0..MaxRetries }

AddConsumerInputs ==
    { Input("AddConsumer", s, cn, d, x, t, 0, 0, 0) :
        s \in StreamNames, cn \in BOOLEAN, d \in Durables, x \in BOOLEAN,
        t \in TtlValues }

DeleteStreamInputs ==
    { Input("DeleteStream", s, FALSE, <<>>, x, t, 0, 0, 0) :
        s \in StreamNames, x \in BOOLEAN, t \in TtlValues }

Inputs == ListInputs \cup AddStreamInputs \cup AddConsumerInputs \cup DeleteStreamInputs

NoInput == Input("none", EMPTY, FALSE, <<>>, FALSE, 0, 0, 0, 0)

\* -------------------------------------------------------------------- Init
\* One call of the interface is about to be made; the other slots are unused.
Init ==
    /\ \E e \in Inputs : env = [c \in Calls |-> IF c = 1 THEN e ELSE NoInput]
    /\ o = [c \in Calls |-> ZeroOpts]
    /\ ctx = [c \in Calls |-> LiveCtx]
    /\ lister = [c \in Calls |-> NewLister(EMPTY)]
    /\ task = [c \in Calls |-> IF c = 1 THEN [NoTask EXCEPT !.pc = "start"] ELSE NoTask]
    /\ ch = [c \in Calls |-> NilChan]
    /\ ret = [c \in Calls |-> NoRet]
    /\ net = [c \in Calls |-> NoNet]

\* ----------------------------------------------------------- the transport
\* nc.Request / nc.RequestWithContext is called with `body`.
Issue(n, body, cx) ==
    [n EXCEPT !.calls = Min(@ + 1, MaxCalls), !.busy = TRUE, !.req = body,
              !.afterCancel = @ \/ cx.cancelled]

\* the reply r to the request in flight has been consumed
Settle(n, r) ==
    [n EXCEPT !.busy = FALSE, !.req = <<>>,
              !.fetched = IF r.fault = Nil THEN @ \o r.Items ELSE @,
              !.failure = IF r.fault = Nil THEN @ ELSE r.fault]

\* ------------------------------------------------------------ the listings
\* ListCall that makes the channel and starts the goroutine whether or not
\* the options resolved
ListCall_StartsAnyway(c) ==
    /\ task[c].pc = "start"
    /\ env[c].kind \in ListKinds
    /\ o' = [o EXCEPT ![c] = getJSMOptsStruct(env[c]).o]
    /\ ch' = [ch EXCEPT ![c].made = TRUE]
    /\ lister' = [lister EXCEPT ![c] = NewLister(env[c].stream)]
    /\ task' = [task EXCEPT ![c].pc = "next"]
    /\ UNCHANGED <<env, ctx, ret, net>>

\* StreamsInfo, StreamNames, ConsumersInfo, ConsumerNames up to `go func()`:
\* a nil channel when the options do not resolve, else a fresh channel, a
\* fresh lister and the goroutine.
ListCall(c) ==
    /\ task[c].pc = "start"
    /\ env[c].kind \in ListKinds
    /\ LET res == getJSMOptsStruct(env[c])
       IN  IF res.err # Nil
           THEN /\ task' = [task EXCEPT ![c].pc = "returned"]
                /\ UNCHANGED <<o, lister, ch>>
           ELSE /\ o' = [o EXCEPT ![c] = res.o]
                /\ ch' = [ch EXCEPT ![c].made = TRUE]
                /\ lister' = [lister EXCEPT ![c] = NewLister(env[c].stream)]
                /\ task' = [task EXCEPT ![c].pc = "next"]
    /\ UNCHANGED <<env, ctx, ret, net>>

\* The goroutine returns: the deferred close(ach), then the deferred cancel.
BridgeExit(c) ==
    /\ ch' = [ch EXCEPT ![c].closed = TRUE]
    /\ ctx' = [ctx EXCEPT ![c] = DeferredCancel(o[c], ctx[c])]
    /\ task' = [task EXCEPT ![c].pc = "closed", ![c].idx = 0]

\* `for sl.Next()`: Next up to its request, or up to its `return false`,
\* which ends the goroutine.
BridgeNext(c) ==
    /\ task[c].pc = "next"
    /\ LET p == NextPre(env[c].kind, lister[c])
       IN  /\ lister' = [lister EXCEPT ![c] = p.l]
           /\ IF p.go
              THEN /\ net' = [net EXCEPT ![c] =
                                Issue(@, RequestBody(env[c].kind, p.l), ctx[c])]
                   /\ task' = [task EXCEPT ![c].pc = "fetching"]
                   /\ UNCHANGED <<ch, ctx>>
              ELSE /\ BridgeExit(c)
                   /\ UNCHANGED net
    /\ UNCHANGED <<env, o, ret>>

\* The reply arrives and Next returns: on false the goroutine ends, on true
\* `for _, info := range sl.Page()` starts (an empty page goes back to Next).
\* Next calls Request with js.wait: the context has no part in its outcome.
BridgeReply(c) ==
    /\ task[c].pc = "fetching"
    /\ \E r \in ListReplies(env[c], net[c].req) :
         LET q == NextPost(lister[c], r)
         IN  /\ lister' = [lister EXCEPT ![c] = q.l]
             /\ net' = [net EXCEPT ![c] = Settle(@, r)]
             /\ IF ~q.ok
                THEN BridgeExit(c)
                ELSE /\ task' = [task EXCEPT
                           ![c].pc = IF q.l.page = <<>> THEN "next" ELSE "push",
                           ![c].idx = IF q.l.page = <<>> THEN 0 ELSE 1]
                     /\ UNCHANGED <<ch, ctx>>
    /\ UNCHANGED <<env, o, ret>>

\* RangeItem that hands out the first item of the page at every index
RangeItem_First(l, idx) == l.page[1]

\* the item `range sl.Page()` hands to the select at index idx
RangeItem(l, idx) == l.page[idx]

\* BridgeSend that goes back to Next after the first item of a page
BridgeSend_FetchAhead(c) ==
    /\ task[c].pc = "push"
    /\ o[c].ctx # Nil
    /\ ch[c].reading
    /\ ch' = [ch EXCEPT ![c].recv = Append(@, RangeItem(lister[c], task[c].idx))]
    /\ task' = [task EXCEPT ![c].pc = "next", ![c].idx = 0]
    /\ UNCHANGED <<env, o, ctx, lister, ret, net>>

\* select { case ach <- info: ... }: the reader takes the item.
BridgeSend(c) ==
    /\ task[c].pc = "push"
    /\ o[c].ctx # Nil
    /\ ch[c].reading
    /\ ch' = [ch EXCEPT ![c].recv = Append(@, RangeItem(lister[c], task[c].idx))]
    /\ task' = IF task[c].idx = Len(lister[c].page)
               THEN [task EXCEPT ![c].pc = "next", ![c].idx = 0]
               ELSE [task EXCEPT ![c].idx = @ + 1]
    /\ UNCHANGED <<env, o, ctx, lister, ret, net>>

\* whether `case <-o.ctx.Done()` can be taken
DoneReady(opts, cx) == opts.ctx # Nil /\ cx.done

\* select { ... case <-o.ctx.Done(): return }
BridgeAbort(c) ==
    /\ task[c].pc = "push"
    /\ DoneReady(o[c], ctx[c])
    /\ BridgeExit(c)
    /\ UNCHANGED <<env, o, lister, ret, net>>

\* o.ctx.Done() on a nil o.ctx: the goroutine panics when it enters the
\* select; its deferred calls run and the program dies.
BridgePanic(c) ==
    /\ task[c].pc = "push"
    /\ o[c].ctx = Nil
    /\ ch' = [ch EXCEPT ![c].closed = TRUE]
    /\ ctx' = [ctx EXCEPT ![c] = DeferredCancel(o[c], ctx[c])]
    /\ task' = [task EXCEPT ![c].pc = "panicked"]
    /\ UNCHANGED <<env, o, lister, ret, net>>

\* --------------------------------------------------------------- AddStream
\* A synchronous call returns (val, err).
Return(c, val, err) ==
    /\ ret' = [ret EXCEPT ![c] = [val |-> val, err |-> err]]
    /\ task' = [task EXCEPT ![c].pc = "returned"]

\* TryAgain with <= for <
TryAgain_OffByOne(opts, i) == i <= opts.maxTries

\* `for i := 0; i < o.maxTries; i++`: whether the loop body runs at index i
TryAgain(opts, i) == i < opts.maxTries

\* AddStream up to its first RequestWithContext: the options, the deferred
\* cancel, the name check, the entry of the retry loop.
AddStream(c) ==
    /\ task[c].pc = "start"
    /\ env[c].kind = "AddStream"
    /\ LET res == getJSMOptsStruct(env[c])
       IN  IF res.err # Nil
           THEN /\ Return(c, 0, res.err)
                /\ UNCHANGED <<o, ctx, net>>
           ELSE /\ o' = [o EXCEPT ![c] = res.o]
                /\ IF env[c].cfgNil \/ env[c].stream = EMPTY
                   THEN /\ Return(c, 0, "ErrStreamNameRequired")
                        /\ ctx' = [ctx EXCEPT ![c] = DeferredCancel(res.o, @)]
                        /\ UNCHANGED net
                   ELSE IF TryAgain(res.o, 0)
                   THEN /\ net' = [net EXCEPT ![c] = Issue(@, <<>>, ctx[c])]
                        /\ task' = [task EXCEPT ![c].pc = "trying", ![c].i = 0]
                        /\ UNCHANGED <<ctx, ret>>
                   ELSE /\ Return(c, 0, Nil)
                        /\ ctx' = [ctx EXCEPT ![c] = DeferredCancel(res.o, @)]
                        /\ UNCHANGED net
    /\ UNCHANGED <<env, lister, ch>>

\* ctx.Err() of a context that is done
ErrContext == "ErrContext"

\* RequestWithContext gives up with the error of its context
ContextReply == Reply(ErrContext, ErrContext, FALSE, Nil, 0, 0, <<>>)

\* What RequestWithContext(ctx, ...) may return: what Request may return
\* and, once ctx is done, the error of ctx (a reply that is already there may
\* still win).
ContextReplies(opts, cx, replies) ==
    IF DoneReady(opts, cx) THEN replies \cup {ContextReply} ELSE replies

\* The reply to attempt i+1: a failure goes to the next iteration (the next
\* request, or the end of the loop with the last error), a success breaks.
AddStreamReply(c) ==
    /\ task[c].pc = "trying"
    /\ \E r \in ContextReplies(o[c], ctx[c], SyncReplies) :
         LET err == ReplyErr(r)
             seen == [net[c] EXCEPT !.busy = FALSE,
                                    !.replies = Append(@, r.fault)]
         IN  IF err = Nil
             THEN /\ Return(c, task[c].i + 1, Nil)
                  /\ ctx' = [ctx EXCEPT ![c] = DeferredCancel(o[c], @)]
                  /\ net' = [net EXCEPT ![c] = seen]
             ELSE IF TryAgain(o[c], task[c].i + 1)
             THEN /\ net' = [net EXCEPT ![c] = Issue(seen, <<>>, ctx[c])]
                  /\ task' = [task EXCEPT ![c].i = @ + 1]
                  /\ UNCHANGED <<ctx, ret>>
             ELSE /\ Return(c, 0, err)
                  /\ ctx' = [ctx EXCEPT ![c] = DeferredCancel(o[c], @)]
                  /\ net' = [net EXCEPT ![c] = seen]
    /\ UNCHANGED <<env, o, lister, ch>>

\* ------------------------------------------------------------- AddConsumer
\* InvalidDurable that looks for the separator at the front only
InvalidDurable_PrefixOnly(e) ==
    ~e.cfgNil /\ e.durable # <<>> /\ e.durable[1] = "."

\* the durable name is set and holds the separator
InvalidDurable(e) ==
    ~e.cfgNil /\ e.durable # <<>> /\ Contains(e.durable, ".")

\* AddConsumer up to its Request.  opts is not read.
AddConsumer(c) ==
    /\ task[c].pc = "start"
    /\ env[c].kind = "AddConsumer"
    /\ IF env[c].stream = EMPTY
       THEN Return(c, 0, "ErrStreamNameRequired") /\ UNCHANGED net
       ELSE IF InvalidDurable(env[c])
       THEN Return(c, 0, "ErrInvalidDurableName") /\ UNCHANGED net
       ELSE /\ net' = [net EXCEPT ![c] = Issue(@, <<>>, ctx[c])]
            /\ task' = [task EXCEPT ![c].pc = "waiting"]
            /\ UNCHANGED ret
    /\ UNCHANGED <<env, o, ctx, lister, ch>>

\* the error AddConsumer returns for a reply
AddConsumerErr(r) ==
    IF r.reqErr # Nil
    THEN (IF r.reqErr = "ErrNoResponders" THEN "ErrJetStreamNotEnabled" ELSE r.reqErr)
    ELSE IF r.garbled THEN ErrDecode
    ELSE IF r.Error # Nil THEN ErrAPI
    ELSE Nil

AddConsumerReply(c) ==
    /\ task[c].pc = "waiting"
    /\ env[c].kind = "AddConsumer"
    /\ \E r \in SyncReplies :
         /\ Return(c, IF AddConsumerErr(r) = Nil THEN 1 ELSE 0, AddConsumerErr(r))
         /\ net' = [net EXCEPT ![c].busy = FALSE,
                                ![c].replies = Append(@, r.fault)]
    /\ UNCHANGED <<env, o, ctx, lister, ch>>

\* ------------------------------------------------------------ DeleteStream
\* DeleteStream up to its Request.  opts is not read.
DeleteStream(c) ==
    /\ task[c].pc = "start"
    /\ env[c].kind = "DeleteStream"
    /\ IF env[c].stream = EMPTY
       THEN Return(c, 0, "ErrStreamNameRequired") /\ UNCHANGED net
       ELSE /\ net' = [net EXCEPT ![c] = Issue(@, <<>>, ctx[c])]
            /\ task' = [task EXCEPT ![c].pc = "waiting"]
            /\ UNCHANGED ret
    /\ UNCHANGED <<env, o, ctx, lister, ch>>

DeleteStreamReply(c) ==
    /\ task[c].pc = "waiting"
    /\ env[c].kind = "DeleteStream"
    /\ \E r \in SyncReplies :
         /\ Return(c, 0, ReplyErr(r))
         /\ net' = [net EXCEPT ![c].busy = FALSE]
    /\ UNCHANGED <<env, o, ctx, lister, ch>>

\* ------------------------------------------------------------ environment
Running(c) == task[c].pc \in {"next", "fetching", "push", "trying", "waiting"}

\* Cancel over one context that every call shares
Cancel_Shared(c) ==
    /\ Running(c)
    /\ o[c].ctx # Nil
    /\ ~ctx[c].done
    /\ ctx' = [d \in Calls |->
                 IF d = c
                 THEN [ctx[d] EXCEPT !.done = TRUE, !.cancelled = TRUE,
                                     !.midDelivery = ch[c].recv # <<>>]
                 ELSE [ctx[d] EXCEPT !.done = TRUE]]
    /\ UNCHANGED <<env, o, lister, task, ch, ret, net>>

\* The caller cancels the context it passed, or the deadline of the derived
\* context elapses.
Cancel(c) ==
    /\ Running(c)
    /\ o[c].ctx # Nil
    /\ ~ctx[c].done
    /\ ctx' = [ctx EXCEPT ![c].done = TRUE, ![c].cancelled = TRUE,
                          ![c].midDelivery = ch[c].recv # <<>>]
    /\ UNCHANGED <<env, o, lister, task, ch, ret, net>>

\* The reader of the channel stops receiving.
StopReading(c) ==
    /\ task[c].pc \in {"next", "fetching", "push"}
    /\ ch[c].reading
    /\ ch' = [ch EXCEPT ![c].reading = FALSE]
    /\ UNCHANGED <<env, o, ctx, lister, task, ret, net>>

Next ==
    \E c \in Calls :
        \/ ListCall(c)
        \/ BridgeNext(c)
        \/ BridgeReply(c)
        \/ BridgeSend(c)
        \/ BridgeAbort(c)
        \/ BridgePanic(c)
        \/ AddStream(c)
        \/ AddStreamReply(c)
        \/ AddConsumer(c)
        \/ AddConsumerReply(c)
        \/ DeleteStream(c)
        \/ DeleteStreamReply(c)
        \/ Cancel(c)
        \/ StopReading(c)

Spec == Init /\ [][Next]_vars

\* The goroutine of a listing keeps running while it can take a step on its
\* own, and Request returns (with a reply or with its timeout).  Nothing is
\* assumed of the reader of the channel or of the caller.
BridgeStep(c) == BridgeNext(c) \/ BridgeReply(c) \/ BridgeAbort(c) \/ BridgePanic(c)

FairSpec == Spec /\ \A c \in Calls : WF_vars(BridgeStep(c))

\* ------------------------------------------------- a lister driven directly
\* The lister on its own: Next is called again and again, also after it has
\* returned false.
InitCursor ==
    /\ \E e \in ListInputs :
         /\ ~e.optCtx /\ e.optTtl = 0
         /\ env = [c \in Calls |-> IF c = 1 THEN e ELSE NoInput]
    /\ o = [c \in Calls |-> ZeroOpts]
    /\ ctx = [c \in Calls |-> LiveCtx]
    /\ lister = [c \in Calls |-> NewLister(env[c].stream)]
    /\ task = [c \in Calls |-> IF c = 1 THEN [NoTask EXCEPT !.pc = "cursor"] ELSE NoTask]
    /\ ch = [c \in Calls |-> NilChan]
    /\ ret = [c \in Calls |-> NoRet]
    /\ net = [c \in Calls |-> NoNet]

\* Next() is called: it returns false, or issues its request.
CursorNext(c) ==
    /\ task[c].pc = "cursor"
    /\ LET p == NextPre(env[c].kind, lister[c])
       IN  /\ lister' = [lister EXCEPT ![c] = p.l]
           /\ IF p.go
              THEN /\ net' = [net EXCEPT ![c] =
                                Issue(@, RequestBody(env[c].kind, p.l), ctx[c])]
                   /\ task' = [task EXCEPT ![c].pc = "cursorFetching",
                                           ![c].again = @ \/ task[c].sawFalse]
              ELSE /\ task' = [task EXCEPT ![c].sawFalse = TRUE,
                                           ![c].again = @ \/ task[c].sawFalse]
                   /\ UNCHANGED net
    /\ UNCHANGED <<env, o, ctx, ch, ret>>

\* The reply arrives and Next() returns.
CursorReply(c) ==
    /\ task[c].pc = "cursorFetching"
    /\ \E r \in ListReplies(env[c], net[c].req) :
         LET q == NextPost(lister[c], r)
         IN  /\ lister' = [lister EXCEPT ![c] = q.l]
             /\ net' = [net EXCEPT ![c] = Settle(@, r)]
             /\ task' = [task EXCEPT ![c].pc = "cursor",
                                     ![c].sawFalse = @ \/ ~q.ok]
    /\ UNCHANGED <<env, o, ctx, ch, ret>>

NextCursor == \E c \in Calls : CursorNext(c) \/ CursorReply(c)

SpecCursor == InitCursor /\ [][NextCursor]_vars

\* ------------------------------------------------- two listings at a time
\* Two listings run side by side, each called with a context of its own:
\* every call builds its own jsmOpts, lister and channel.
PairItems == 2

PairInputs ==
    { e \in ListInputs :
        /\ e.kind \in {"StreamsInfo", "ConsumerNames"}
        /\ e.stream = (IF e.kind = "ConsumerNames" THEN "ORDERS" ELSE EMPTY)
        /\ e.optCtx /\ e.optTtl = 0
        /\ e.N = PairItems /\ e.total = PairItems }

InitPair ==
    /\ \E e1 \in PairInputs, e2 \in PairInputs :
         env = [c \in Calls |-> IF c = 1 THEN e1 ELSE IF c = 2 THEN e2 ELSE NoInput]
    /\ o = [c \in Calls |-> ZeroOpts]
    /\ ctx = [c \in Calls |-> LiveCtx]
    /\ lister = [c \in Calls |-> NewLister(EMPTY)]
    /\ task = [c \in Calls |-> IF c <= 2 THEN [NoTask EXCEPT !.pc = "start"] ELSE NoTask]
    /\ ch = [c \in Calls |-> NilChan]
    /\ ret = [c \in Calls |-> NoRet]
    /\ net = [c \in Calls |-> NoNet]

NextPair ==
    \E c \in Calls :
        \/ ListCall(c)
        \/ BridgeNext(c)
        \/ BridgeReply(c)
        \/ BridgeSend(c)
        \/ BridgeAbort(c)
        \/ Cancel(c)
        \/ StopReading(c)

SpecPair == InitPair /\ [][NextPair]_vars

\* ================================================================== claims
IsListing(c) == env[c].kind \in ListKinds

\* s is a prefix of t
IsPrefix(s, t) == Len(s) <= Len(t) /\ SubSeq(t, 1, Len(s)) = s

\* C1: a listing that ran to the close of its channel without a cancellation
\* and without a failed fetch, against a server that holds N items and
\* reports total = N, has delivered exactly N items.
C1_DeliversAllItems ==
    \A c \in Calls :
        ( /\ IsListing(c)
          /\ task[c].pc = "closed"
          /\ env[c].total = env[c].N
          /\ ~ctx[c].cancelled
          /\ lister[c].err = Nil )
        => Len(ch[c].recv) = env[c].N

\* C2: once the context of a listing has been cancelled during delivery (the
\* reader had received an item), the number of requests the listing has
\* handed to the transport no longer grows.
C2_NoFetchAfterCancel ==
    [][ \A c \in Calls :
          (IsListing(c) /\ ctx[c].cancelled /\ ctx[c].midDelivery)
          => net'[c].calls = net[c].calls ]_vars

\* C3: once the context of a listing has been cancelled, its goroutine
\* eventually ends and closes the channel, whatever the reader does.
C3_CancelLeadsToClose ==
    \A c \in Calls :
        (IsListing(c) /\ ctx[c].cancelled) ~> ch[c].closed

\* C4: a call that was given both a context and a nonzero deadline hands no
\* request to the transport and, when it returns values, returns
\* ErrContextAndTimeout.
C4_ContextAndTimeoutRejected ==
    \A c \in Calls :
        (env[c].optCtx /\ env[c].optTtl # 0)
        => /\ net[c].calls = 0
           /\ (task[c].pc = "returned" /\ env[c].kind \in SyncKinds)
                 => ret[c].err = "ErrContextAndTimeout"

\* the first attempt whose reply is a success, 0 when there is none
FirstSuccess(replies) ==
    IF \E k \in DOMAIN replies : replies[k] = Nil
    THEN CHOOSE k \in DOMAIN replies :
             replies[k] = Nil /\ \A j \in 1..(k - 1) : replies[j] # Nil
    ELSE 0

\* AddStream got past the options and the name check
AddStreamTried(c) ==
    /\ env[c].kind = "AddStream"
    /\ ~(env[c].optCtx /\ env[c].optTtl # 0)
    /\ ~env[c].cfgNil
    /\ env[c].stream # EMPTY

\* C5: AddStream with a budget of B attempts never issues more than B
\* requests; when it returns, either attempt k was the first success, exactly
\* k requests were issued and it returns the record of attempt k with no
\* error, or no attempt succeeded, exactly B requests were issued and it
\* returns nil with the error of the last attempt.
C5_RetryBudget ==
    \A c \in Calls :
        AddStreamTried(c) /\ task[c].pc # "start" /\ o[c].maxTries >= 1
        => LET B == o[c].maxTries
               replies == net[c].replies
               k == FirstSuccess(replies)
           IN  /\ net[c].calls <= B
               /\ task[c].pc = "returned" =>
                    IF k > 0
                    THEN /\ net[c].calls = k
                         /\ Len(replies) = k
                         /\ ret[c] = [val |-> k, err |-> Nil]
                    ELSE /\ net[c].calls = B
                         /\ Len(replies) = B
                         /\ ret[c] = [val |-> 0, err |-> replies[B]]

\* C5 witness: the third attempt succeeded after two failures.
C5_Witness ==
    \E c \in Calls :
        /\ AddStreamTried(c) /\ task[c].pc = "returned"
        /\ net[c].calls = 3 /\ ret[c].val = 3
        /\ net[c].replies[1] # Nil /\ net[c].replies[2] # Nil

\* C6: once Next has returned false, a later Next returns false and hands no
\* request to the transport; an error the lister holds never changes.
C6_ExhaustedIsFinal ==
    [][ \A c \in Calls :
          /\ task[c].sawFalse =>
                /\ net'[c].calls = net[c].calls
                /\ ~net'[c].busy
                /\ task'[c].pc = "cursor"
                /\ task'[c].sawFalse
          /\ lister[c].err # Nil => lister'[c].err = lister[c].err ]_vars

\* C6 witness: Next was called again on a lister that had run through all the
\* items the server reported.
C6_Witness ==
    \E c \in Calls :
        /\ task[c].again /\ task[c].pc = "cursor"
        /\ lister[c].err = Nil /\ lister[c].offset >= 2 /\ Exhausted(lister[c])

\* C7: AddConsumer with a stream name and a durable name that holds '.'
\* returns ErrInvalidDurableName and hands no request to the transport.
C7_DurableWithSeparator ==
    \A c \in Calls :
        ( /\ env[c].kind = "AddConsumer"
          /\ env[c].stream # EMPTY
          /\ ~env[c].cfgNil
          /\ \E k \in DOMAIN env[c].durable : env[c].durable[k] = "."
          /\ task[c].pc # "start" )
        => /\ task[c].pc = "returned"
           /\ ret[c] = [val |-> 0, err |-> "ErrInvalidDurableName"]
           /\ net[c].calls = 0

C7_Witness ==
    \E c \in Calls :
        /\ env[c].kind = "AddConsumer" /\ env[c].stream # EMPTY
        /\ env[c].durable = <<"a", ".", "b">> /\ ~env[c].cfgNil
        /\ task[c].pc = "returned"

\* the first page of the listing reported total = 0 and held no item
EmptyFirstPage(c) ==
    /\ IsListing(c)
    /\ lister[c].pageInfo # <<>>
    /\ lister[c].pageInfo[1].Total = 0
    /\ env[c].N = 0

\* C8: when the first page reports total = 0 and holds no item, no item is
\* delivered, there is exactly one fetch, and the only step left to the
\* goroutine is the close of the channel.
C8_EmptyListing ==
    \A c \in Calls :
        EmptyFirstPage(c)
        => /\ ch[c].recv = <<>>
           /\ net[c].calls = 1
           /\ task[c].pc \in {"next", "closed"}
           /\ task[c].pc = "closed" => ch[c].closed

C8_Witness ==
    \E c \in Calls :
        EmptyFirstPage(c) /\ ch[c].closed /\ net[c].calls = 1

\* C9: what the reader has received is a prefix of the items of the pages
\* fetched so far, in fetch order.
C9_DeliveredIsPrefix ==
    \A c \in Calls : IsListing(c) => IsPrefix(ch[c].recv, net[c].fetched)

\* C9 witness: three items received, so from two pages at least.
C9_Witness ==
    \E c \in Calls :
        /\ env[c].kind = "StreamsInfo"
        /\ ch[c].recv = <<1, 2, 3>>
        /\ net[c].calls >= 2

\* C10: a listing with a context that was not cancelled, whose channel is
\* closed: if a fetch failed, every item of the pages fetched before it was
\* delivered, nothing else was, and the lister holds the failure; if no fetch
\* failed and the lister ran through the reported total, the lister holds no
\* error.
C10_FailureClosesAfterDelivery ==
    \A c \in Calls :
        ( /\ IsListing(c)
          /\ task[c].pc = "closed"
          /\ o[c].ctx # Nil
          /\ ~ctx[c].cancelled )
        => /\ net[c].failure # Nil =>
                /\ ch[c].recv = net[c].fetched
                /\ \A k \in DOMAIN ch[c].recv : ch[c].recv[k] # 0
                /\ lister[c].err = net[c].failure
           /\ (net[c].failure = Nil /\ lister[c].pageInfo # <<>>) =>
                /\ ch[c].recv = net[c].fetched
                /\ lister[c].err = Nil

\* C10 witness: the third fetch failed after two items had been delivered.
C10_Witness ==
    \E c \in Calls :
        /\ IsListing(c) /\ task[c].pc = "closed" /\ ~ctx[c].cancelled
        /\ net[c].failure # Nil /\ Len(ch[c].recv) >= 2

\* everything the model keeps for call c
CallState(c) == <<env[c], o[c], ctx[c], lister[c], task[c], ch[c], ret[c], net[c]>>

\* C11: with two listings running, a step of one call (its cancellation
\* included) changes nothing of the other call: its options, context, lister,
\* task position, channel and requests stay as they were.
C11_CancelIsLocal ==
    [][ \A c \in Calls : \A d \in Calls \ {c} :
          CallState(c)' # CallState(c) => CallState(d)' = CallState(d) ]_vars

\* C11 witness: call 1 was cancelled and ended early, call 2 ran on
\* uncancelled and delivered every item.
C11_Witness ==
    /\ ctx[1].cancelled /\ task[1].pc = "closed"
    /\ Len(ch[1].recv) < env[1].N
    /\ IsListing(2) /\ task[2].pc = "closed"
    /\ ~ctx[2].done /\ ~ctx[2].cancelled
    /\ env[2].kind = "StreamsInfo"
    /\ ch[2].recv = ServerItems(env[2])

\* the calls that create a resource
CreateKinds == {"AddStream", "AddConsumer"}

\* C12: a create call (AddStream, AddConsumer) that returns after the
\* transport answered its last request with "no responders" returns
\* ErrJetStreamNotEnabled.
C12_NoRespondersIsNotEnabled ==
    \A c \in Calls :
        ( /\ env[c].kind \in CreateKinds
          /\ task[c].pc = "returned"
          /\ net[c].replies # <<>>
          /\ net[c].replies[Len(net[c].replies)] = "ErrNoResponders" )
        => ret[c].err = "ErrJetStreamNotEnabled"

\* the calls that resolve their options with getJSMOptsStruct
ResolvingKinds == ListKinds \cup {"AddStream"}

\* the call, and its goroutine if it has one, is over
Ended(c) == task[c].pc \in {"returned", "closed", "panicked"}

\* C13: in a call that resolves its options, the cancel function the
\* resolver derived is never called while the call runs, and has been called
\* exactly once when the call is over, whichever way it ended; it is never
\* called twice.
C13_CancelOnce ==
    \A c \in Calls :
        env[c].kind \in ResolvingKinds
        => /\ ctx[c].released <= 1
           /\ ~Ended(c) => ctx[c].released = 0
           /\ (Ended(c) /\ o[c].ctxCancel) => ctx[c].released = 1

\* C13 witness: a listing with a derived context ended on the expiry of
\* that context after an item was delivered, and the cancel function ran once.
C13_Witness ==
    \E c \in Calls :
        /\ IsListing(c) /\ o[c].ctxCancel
        /\ ctx[c].cancelled /\ task[c].pc = "closed"
        /\ ch[c].recv # <<>> /\ Len(ch[c].recv) < env[c].N
        /\ ctx[c].released = 1

\* C14: when the caller passed a context of its own, the resolved options
\* hold no cancel function, no cancel function is ever called, and the
\* context is done only if the caller itself cancelled it, on every path and
\* after the call is over.
C14_CallerContextUntouched ==
    \A c \in Calls :
        env[c].optCtx
        => /\ ~o[c].ctxCancel
           /\ ctx[c].released = 0
           /\ ctx[c].done => ctx[c].cancelled

\* C14 witness: a listing called with the caller's context delivered items
\* and closed its channel, and the context is still live.
C14_Witness ==
    \E c \in Calls :
        /\ IsListing(c) /\ env[c].optCtx /\ o[c].ctx = "ext"
        /\ task[c].pc = "closed" /\ ch[c].recv # <<>>
        /\ ~ctx[c].done

C16_FinitelyManyFetches ==
    \A c \in Calls :
        (IsListing(c) /\ env[c].total > env[c].N) => <>[](~net[c].busy)

\* the offset a list request asks for: a request without a body asks for the
\* start of the list
RequestedOffset(req) == IF req = <<>> THEN 0 ELSE req[1]

\* C17: while a fetch of a listing is in flight, the request asks for the
\* page at the lister's offset, which is the number of items of the pages
\* fetched before.
C17_FetchAtTrackedOffset ==
    \A c \in Calls :
        (IsListing(c) /\ net[c].busy)
        => /\ lister[c].offset = Len(net[c].fetched)
           /\ RequestedOffset(net[c].req) = lister[c].offset

\* C18: once the context of an AddStream call is cancelled or expired, the
\* call hands no further request to the transport, whatever is left of its
\* budget.
C18_NoAttemptAfterCancel ==
    [][ \A c \in Calls :
          (env[c].kind = "AddStream" /\ ctx[c].cancelled)
          => net'[c].calls = net[c].calls ]_vars

\* C19: a page fetch of a listing that is in flight when the context of the
\* call is cancelled ends in a failure of the fetch, not in a page.
C19_FetchBoundedByContext ==
    [][ \A c \in Calls :
          ( /\ IsListing(c)
            /\ task[c].pc = "fetching"
            /\ ctx[c].cancelled
            /\ ~net[c].afterCancel
            /\ task'[c].pc # "fetching" )
          => lister'[c].err # Nil ]_vars

\* C20: the options of a call whose options resolved without error hold a
\* context, and when the caller passed none they hold a cancel function too,
\* for every deadline the caller can set.
C20_ResolvedContextNotNil ==
    \A c \in Calls :
        ( /\ env[c].kind \in ResolvingKinds
          /\ task[c].pc # "start"
          /\ getJSMOptsStruct(env[c]).err = Nil )
        => /\ o[c].ctx # Nil
           /\ ~env[c].optCtx => o[c].ctxCancel

\* the listings of the consumers of one stream
ScopedKinds == {"ConsumersInfo", "ConsumerNames"}

\* C21: a ConsumersInfo or ConsumerNames call with an empty stream name whose
\* options resolved hands no request to the transport and delivers no item;
\* its first Next returns false, after which the channel is closed and the
\* lister holds ErrStreamNameRequired.
C21_EmptyStreamName ==
    \A c \in Calls :
        ( /\ env[c].kind \in ScopedKinds
          /\ env[c].stream = EMPTY
          /\ getJSMOptsStruct(env[c]).err = Nil
          /\ task[c].pc # "start" )
        => /\ net[c].calls = 0 /\ ~net[c].busy
           /\ ch[c].recv = <<>>
           /\ task[c].pc \in {"next", "closed"}
           /\ task[c].pc = "closed" =>
                /\ ch[c].closed
                /\ lister[c].err = "ErrStreamNameRequired"

\* C21 witness: ConsumerNames("") ran to the close of its channel.
C21_Witness ==
    \E c \in Calls :
        /\ env[c].kind = "ConsumerNames" /\ env[c].stream = EMPTY
        /\ ch[c].made /\ ch[c].closed /\ task[c].pc = "closed"
        /\ lister[c].err = "ErrStreamNameRequired"

\* the items of fetched pages that the reader has not received
Undelivered(c) == Len(net[c].fetched) - Len(ch[c].recv)

\* C22: in a listing a request is in flight only while the goroutine is
\* inside Next, and then every item of the pages fetched before has been
\* handed to the reader; while a push is pending no request is in flight and
\* the undelivered items are the rest of the current page, never more than
\* one page.
C22_SequentialFetches ==
    \A c \in Calls :
        IsListing(c)
        => /\ net[c].busy <=> task[c].pc = "fetching"
           /\ net[c].busy => ch[c].recv = net[c].fetched
           /\ task[c].pc = "next" => ch[c].recv = net[c].fetched
           /\ task[c].pc = "push" =>
                /\ Undelivered(c) = Len(lister[c].page) - task[c].idx + 1
                /\ Undelivered(c) <= Len(lister[c].page)

\* C22 witness: the second request is in flight after both items of the
\* first page were handed over.
C22_Witness ==
    \E c \in Calls :
        /\ env[c].kind = "StreamsInfo"
        /\ net[c].busy /\ net[c].calls = 2
        /\ ch[c].recv = <<1, 2>>
        /\ lister[c].page = <<1, 2>>

\* C23: a listing call whose options do not resolve returns a nil channel
\* and is over: no channel was made, so nothing is delivered or closed, no
\* goroutine runs, no request is handed to the transport, no lister holds an
\* error and no error is returned.
C23_ResolutionFailureNilChannel ==
    \A c \in Calls :
        ( /\ IsListing(c)
          /\ getJSMOptsStruct(env[c]).err # Nil
          /\ task[c].pc # "start" )
        => /\ task[c].pc = "returned"
           /\ ch[c] = NilChan
           /\ net[c].calls = 0 /\ ~net[c].busy
           /\ lister[c].err = Nil
           /\ ret[c] = NoRet
           /\ ctx[c].released = 0

\* C23 witness: StreamsInfo called with a context and a deadline returned.
C23_Witness ==
    \E c \in Calls :
        /\ env[c].kind = "StreamsInfo"
        /\ env[c].optCtx /\ env[c].optTtl = 1
        /\ task[c].pc = "returned" /\ ~ch[c].made

====
